---- MODULE Spec2Model ----
(***************************************************************************)
(* Expense approval workflow: the approval-sequence builder                *)
(* (ApprovalWorkflowService, src/routes/currencies.js), the decision       *)
(* handlers (src/routes/approvals.js), expense submission and cancel       *)
(* (src/routes/expenses.js) and the Expense schema (src/unnamed/part_010). *)
(* Also the budget alerts of a submission (checkBudgetAndSendAlerts), the  *)
(* budget update (src/unnamed/part_005), and the manager routes of the     *)
(* approvalFlow model (src/routes/Manager.js, src/Models/Expense.js).      *)
(*                                                                         *)
(* Identifiers are modelled as strings.  An ObjectId's toString() is the   *)
(* identifier itself; the toString() of a populated Mongoose document is   *)
(* the inspection string of the whole document, which is never equal to    *)
(* an identifier.                                                          *)
(***************************************************************************)
EXTENDS Integers, Sequences, FiniteSets, TLC

VARIABLES rules, expenses, built, resp, last, reqs, users, mails, flowExpenses

vars == <<rules, expenses, built, resp, last, reqs, users, mails, flowExpenses>>

\* ------------------------------------------------------------------ bounds
MaxExpenses == 2

ExpenseIds == 1..MaxExpenses

\* ------------------------------------------------------- directory of users
NULL == "null"

Companies == {"c1", "c2"}

Users == {"A", "B", "C", "adm", "emp", "out"}

\* the alert threshold a user starts with, in percent of the monthly budget; it
\* is read only after a budget update has set the budget and the threshold
AlertThresholdPercent == 80

\* the User collection the company is started with: three approving managers,
\* an admin, an employee reporting to A, and an admin of another company
Directory ==
  [u \in Users |->
     [role |-> CASE u \in {"A", "B", "C"} -> "manager"
                 [] u \in {"adm", "out"} -> "admin"
                 [] OTHER -> "employee",
      company |-> IF u = "out" THEN "c2" ELSE "c1",
      manager |-> IF u = "emp" THEN "A" ELSE NULL,
      isManagerApprover |-> u \in {"A", "B", "C", "out"},
      isActive |-> TRUE,
      monthlyBudget |-> 0,
      budgetAlertThreshold |-> AlertThresholdPercent,
      budgetAlertSent |-> FALSE]]

role(u) == users[u].role

companyOf(u) == users[u].company

managerOf(u) == users[u].manager

isManagerApprover(u) == users[u].isManagerApprover

isActive(u) == users[u].isActive

\* role middleware (permission matrix of the API documentation)
isManager(u) == role(u) \in {"manager", "admin"}

isAdmin(u) == role(u) = "admin"

\* -------------------------------------------------------------- conversions
\* ObjectId.prototype.toString(): the hexadecimal identifier
IdToString(id) == id

\* Document.prototype.toString() of a populated user: the inspected document
DocToString(id) == "{ _id: " \o id \o " }"

\* ------------------------------------------------------------------- rules
NoThreshold == <<>>

SeqApprover(u, s, r) == [approver |-> u, sequence |-> s, isRequired |-> r]

SequentialRule(prio, approvers) ==
  [type |-> "sequential", company |-> "c1", isActive |-> TRUE, priority |-> prio,
   amountThreshold |-> NoThreshold, categoryFilter |-> <<>>,
   percentage |-> 0, specificApprovers |-> <<>>, sequential |-> approvers]

PercentageRule(prio, p) ==
  [type |-> "percentage", company |-> "c1", isActive |-> TRUE, priority |-> prio,
   amountThreshold |-> NoThreshold, categoryFilter |-> <<>>,
   percentage |-> p, specificApprovers |-> <<>>, sequential |-> <<>>]

SpecificRule(prio, approvers) ==
  [type |-> "specific_approver", company |-> "c1", isActive |-> TRUE, priority |-> prio,
   amountThreshold |-> NoThreshold, categoryFilter |-> <<>>,
   percentage |-> 0, specificApprovers |-> approvers, sequential |-> <<>>]

HybridRule(prio, approvers, p) ==
  [type |-> "hybrid", company |-> "c1", isActive |-> TRUE, priority |-> prio,
   amountThreshold |-> NoThreshold, categoryFilter |-> <<>>,
   percentage |-> p, specificApprovers |-> approvers, sequential |-> <<>>]

\* the rule of the amount/category matching example
TravelRule ==
  [SequentialRule(1, <<SeqApprover("B", 1, TRUE)>>) EXCEPT
     !.amountThreshold = [minAmount |-> 100, maxAmount |-> 1000],
     !.categoryFilter = <<"Travel">>]

\* the rule configurations a company is started with (collection order)
RuleSets ==
  { <<>>,
    <<[SpecificRule(9, <<"C">>) EXCEPT !.isActive = FALSE],
      [PercentageRule(8, 10) EXCEPT !.company = "c2"],
      SequentialRule(1, <<SeqApprover("B", 2, TRUE), SeqApprover("A", 1, TRUE)>>)>>,
    <<SequentialRule(2, <<SeqApprover("A", 1, TRUE), SeqApprover("B", 2, TRUE),
                          SeqApprover("C", 3, TRUE)>>),
      PercentageRule(1, 60)>>,
    <<PercentageRule(1, 50),
      SequentialRule(2, <<SeqApprover("A", 1, TRUE), SeqApprover("B", 2, TRUE)>>)>>,
    <<SpecificRule(1, <<"A", "B">>)>>,
    <<TravelRule>>,
    <<SequentialRule(2, <<SeqApprover("A", 1, TRUE), SeqApprover("B", 2, FALSE)>>),
      HybridRule(1, <<"B">>, 50)>>,
    <<PercentageRule(1, 60)>>,
    <<SequentialRule(1, <<>>)>>,
    <<HybridRule(1, <<"A", "B">>, 50)>>,
    <<[TravelRule EXCEPT !.sequential = <<SeqApprover("adm", 1, TRUE)>>]>>,
    <<SequentialRule(1, <<SeqApprover("A", 1, TRUE), SeqApprover("out", 2, TRUE)>>)>>,
    <<SequentialRule(1, <<SeqApprover("A", 1, TRUE), SeqApprover("adm", 2, TRUE)>>)>> }

\* the submitted expenses: <<amountInCompanyCurrency, category>>
SubmitInputs == {<<50, "Travel">>, <<500, "Meals">>, <<500, "Travel">>}

\* the updates of a pending expense: <<amount, category>>
UpdateInputs == {<<500, "Meals">>}


Comments == {"ok"}

\* the override request is sent without comments
OverrideComments == {NULL}

\* ------------------------------------------------------ JavaScript helpers
\* an object literal: a later property with the same key replaces an earlier one
ObjectLiteral(pairs) ==
  [k \in {pairs[i][1] : i \in DOMAIN pairs} |->
     pairs[CHOOSE i \in DOMAIN pairs :
             /\ pairs[i][1] = k
             /\ \A j \in DOMAIN pairs : pairs[j][1] = k => j <= i][2]]

Exists(doc, field) == field \in DOMAIN doc

\* the value of a property used as a condition (a missing property is falsy)
Truthy(doc, field) == IF Exists(doc, field) THEN doc[field] = TRUE ELSE FALSE

Includes(s, x) == \E i \in DOMAIN s : s[i] = x

\* Array.prototype.sort / cursor sort by ascending key[i]: stable (equal keys
\* keep their order)
StableSort(s, key) ==
  LET rank(i) == 1 + Cardinality({j \in DOMAIN s :
                      \/ key[j] < key[i]
                      \/ (key[j] = key[i] /\ j < i)})
  IN [k \in DOMAIN s |-> s[CHOOSE i \in DOMAIN s : rank(i) = k]]

\* ------------------------------------------------- approval-sequence builder
\* the filter object of ApprovalRule.find in determineApprovalSequence
RuleQuery(expense, company) ==
  ObjectLiteral(<< <<"company", company>>,
                   <<"isActive", TRUE>>,
                   <<"$or", "minAmount">>,
                   <<"$or", "maxAmount">>,
                   <<"$or", "categoryFilter">> >>)

\* one of the three $or clauses of the filter, evaluated on a rule
OrClause(clause, rule, expense) ==
  CASE clause = "minAmount" ->
         \/ /\ Exists(rule.amountThreshold, "minAmount")
            /\ rule.amountThreshold.minAmount <= expense.amountInCompanyCurrency
         \/ ~Exists(rule.amountThreshold, "minAmount")
    [] clause = "maxAmount" ->
         \/ /\ Exists(rule.amountThreshold, "maxAmount")
            /\ rule.amountThreshold.maxAmount >= expense.amountInCompanyCurrency
         \/ ~Exists(rule.amountThreshold, "maxAmount")
    [] clause = "categoryFilter" ->
         \/ Includes(rule.categoryFilter, expense.category)
         \/ ~Exists(rule, "categoryFilter")
         \/ Len(rule.categoryFilter) = 0

MatchesQuery(rule, query, expense) ==
  /\ rule.company = query["company"]
  /\ rule.isActive = query["isActive"]
  /\ OrClause(query["$or"], rule, expense)

\* the steps in configured (array) order, without sorting
buildSequentialSequenceUnsorted(sequentialApprovers) ==
  [i \in DOMAIN sequentialApprovers |->
     [approver |-> sequentialApprovers[i].approver,
      sequence |-> sequentialApprovers[i].sequence,
      isRequired |-> sequentialApprovers[i].isRequired, status |-> "pending"]]

buildSequentialSequence(sequentialApprovers) ==
  LET sorted == StableSort(sequentialApprovers,
                           [i \in DOMAIN sequentialApprovers |-> sequentialApprovers[i].sequence])
  IN [i \in DOMAIN sorted |->
        [approver |-> sorted[i].approver, sequence |-> sorted[i].sequence,
         isRequired |-> sorted[i].isRequired, status |-> "pending"]]

buildPercentageSequence(rule) ==
  << [approver |-> NULL, sequence |-> 1, isRequired |-> FALSE, status |-> "pending",
      ruleType |-> "percentage", percentage |-> rule.percentage] >>

buildSpecificApproverSequence(specificApprovers) ==
  [i \in DOMAIN specificApprovers |->
     [approver |-> specificApprovers[i], sequence |-> i,
      isRequired |-> TRUE, status |-> "pending"]]

buildHybridSequence(rule) ==
  LET specific == [i \in DOMAIN rule.specificApprovers |->
                     [approver |-> rule.specificApprovers[i], sequence |-> i,
                      isRequired |-> TRUE, status |-> "pending",
                      ruleType |-> "hybrid_specific"]]
  IN specific \o << [approver |-> NULL, sequence |-> Len(specific) + 1,
                     isRequired |-> FALSE, status |-> "pending",
                     ruleType |-> "hybrid_percentage",
                     percentage |-> rule.percentage] >>

DefaultStep(u) == [approver |-> u, sequence |-> 1, isRequired |-> TRUE, status |-> "pending"]

\* a default sequence whose second choice is any active manager of the company
getDefaultApprovalSequenceAnyManager(expense) ==
  LET m == managerOf(expense.employee)
      managers == {u \in Users : /\ companyOf(u) = expense.company
                                 /\ role(u) = "manager" /\ isActive(u)}
      admins == {u \in Users : /\ companyOf(u) = expense.company
                               /\ role(u) = "admin" /\ isActive(u)}
  IN IF m # NULL /\ isManagerApprover(m) THEN <<DefaultStep(m)>>
     ELSE IF managers # {} THEN <<DefaultStep(CHOOSE u \in managers : TRUE)>>
     ELSE IF admins # {} THEN <<DefaultStep(CHOOSE u \in admins : TRUE)>>
     ELSE <<>>

getDefaultApprovalSequence(expense) ==
  LET m == managerOf(expense.employee)
      managers == {u \in Users : /\ companyOf(u) = expense.company
                                 /\ role(u) = "manager" /\ isManagerApprover(u)
                                 /\ isActive(u)}
      admins == {u \in Users : /\ companyOf(u) = expense.company
                               /\ role(u) = "admin" /\ isActive(u)}
  IN IF m # NULL /\ isManagerApprover(m) THEN <<DefaultStep(m)>>
     ELSE IF managers # {} THEN <<DefaultStep(CHOOSE u \in managers : TRUE)>>
     ELSE IF admins # {} THEN <<DefaultStep(CHOOSE u \in admins : TRUE)>>
     ELSE <<>>

buildApprovalSequence(rule, expense) ==
  CASE rule.type = "sequential" -> buildSequentialSequence(rule.sequential)
    [] rule.type = "percentage" -> buildPercentageSequence(rule)
    [] rule.type = "specific_approver" -> buildSpecificApproverSequence(rule.specificApprovers)
    [] rule.type = "hybrid" -> buildHybridSequence(rule)
    [] OTHER -> getDefaultApprovalSequence(expense)

\* the rules returned by the query of determineApprovalSequence, sorted
MatchingRules(ruleList, expense, company) ==
  LET Matches(r) == MatchesQuery(r, RuleQuery(expense, company), expense)
      found == SelectSeq(ruleList, Matches)
  IN StableSort(found, [i \in DOMAIN found |-> 0 - found[i].priority])

\* the outcome of an awaited call: a returned value or a thrown error
Throws == [threw |-> TRUE, value |-> <<>>]

Returns(v) == [threw |-> FALSE, value |-> v]

\* the faults of one call: none, the ApprovalRule query rejects, the User query
\* rejects
Faults == {"none", "ruleLookup", "userLookup"}

\* ApprovalRule.find(...).sort(...).populate(...)
FindRules(ruleList, expense, company, fault) ==
  IF fault = "ruleLookup" THEN Throws
  ELSE Returns(MatchingRules(ruleList, expense, company))

\* getDefaultApprovalSequence with its User queries
TryDefaultApprovalSequence(expense, fault) ==
  IF fault = "userLookup" THEN Throws
  ELSE Returns(getDefaultApprovalSequence(expense))

\* buildApprovalSequence: a sequential approver whose user no longer exists is
\* populated as null, and reading its _id throws
TryBuildApprovalSequence(rule, expense) ==
  IF /\ rule.type = "sequential"
     /\ \E i \in DOMAIN rule.sequential : rule.sequential[i].approver = NULL
  THEN Throws
  ELSE Returns(buildApprovalSequence(rule, expense))

\* determineApprovalSequence without its try/catch
TryDetermineNoCatch(ruleList, expense, company, fault) ==
  LET found == FindRules(ruleList, expense, company, fault)
  IN IF found.threw THEN Throws
     ELSE IF Len(found.value) = 0 THEN TryDefaultApprovalSequence(expense, fault)
     ELSE TryBuildApprovalSequence(found.value[1], expense)

\* determineApprovalSequence: an error thrown in the try block is caught and
\* the default sequence is returned (an error of the default propagates)
TryDetermineApprovalSequence(ruleList, expense, company, fault) ==
  LET found == FindRules(ruleList, expense, company, fault)
      inTry == IF found.threw THEN Throws
               ELSE IF Len(found.value) = 0 THEN TryDefaultApprovalSequence(expense, fault)
               ELSE TryBuildApprovalSequence(found.value[1], expense)
  IN IF inTry.threw THEN TryDefaultApprovalSequence(expense, fault) ELSE inTry

\* the sequence returned when no query fails
determineApprovalSequence(ruleList, expense, company) ==
  TryDetermineApprovalSequence(ruleList, expense, company, "none").value

\* ------------------------------------------------------------ Expense schema
StepStatusEnum == {"pending", "approved", "rejected"}

StatusEnum == {"pending", "approved", "rejected", "cancelled"}

NoFinalApproval == [approvedBy |-> NULL, rejectedBy |-> NULL, finalComments |-> NULL]

\* casting a step to the approvalSequence sub-schema: undeclared paths are dropped
CastStep(step) ==
  [approver |-> step.approver, sequence |-> step.sequence,
   status |-> step.status, comments |-> NULL]

\* validation run by save()
Validates(doc) ==
  /\ doc.status \in StatusEnum
  /\ \A i \in DOMAIN doc.approvalSequence :
       /\ doc.approvalSequence[i].approver # NULL
       /\ doc.approvalSequence[i].status \in StepStatusEnum

\* ------------------------------------------------------- decision evaluator
checkAutoApproval(ruleList, expense, approverString) ==
  \E i \in DOMAIN ruleList :
     /\ ruleList[i].company = expense.company
     /\ ruleList[i].isActive
     /\ ruleList[i].type \in {"specific_approver", "hybrid"}
     /\ \E j \in DOMAIN ruleList[i].specificApprovers :
          IdToString(ruleList[i].specificApprovers[j]) = approverString

\* the count of the steps that are still pending
ApprovedCountOfPending(approvals) ==
  Cardinality({i \in DOMAIN approvals : approvals[i].status = "pending"})

ApprovedCount(approvals) ==
  Cardinality({i \in DOMAIN approvals : approvals[i].status = "approved"})

\* (approvedCount / totalCount) * 100 >= percentage, in exact arithmetic
checkPercentageApproval(ruleList, expense, approvals) ==
  \E i \in DOMAIN ruleList :
     /\ ruleList[i].company = expense.company
     /\ ruleList[i].isActive
     /\ ruleList[i].type \in {"percentage", "hybrid"}
     /\ ApprovedCount(approvals) * 100 >= ruleList[i].percentage * Len(approvals)

PendingIndexes(approvalSequence) ==
  {i \in DOMAIN approvalSequence : approvalSequence[i].status = "pending"}

Min(S) == CHOOSE x \in S : \A y \in S : x <= y

\* getNextApprover returns null: no step is pending
NoNextApprover(approvalSequence) == PendingIndexes(approvalSequence) = {}

\* the first step, pending or not
getNextApproverFirstStep(approvalSequence) == approvalSequence[1]

\* the last pending step
getNextApproverLastPending(approvalSequence) ==
  approvalSequence[CHOOSE i \in PendingIndexes(approvalSequence) :
                     \A j \in PendingIndexes(approvalSequence) : j <= i]

\* the first pending step (when there is one)
getNextApprover(approvalSequence) ==
  approvalSequence[Min(PendingIndexes(approvalSequence))]

areAllRequiredApprovalsComplete(approvalSequence) ==
  \A i \in DOMAIN approvalSequence :
     Truthy(approvalSequence[i], "isRequired") => approvalSequence[i].status # "pending"


\* the fields of a final decision, as assigned to expense.finalApproval
FinalApproval(action, u, comments) ==
  IF action = "rejected"
  THEN [approvedBy |-> NULL, rejectedBy |-> u, finalComments |-> comments]
  ELSE [approvedBy |-> u, rejectedBy |-> NULL, finalComments |-> comments]

\* a final decision that leaves the current approver in place
FinalizeKeepsApprover(doc, seq, status, u, comments) ==
  [doc EXCEPT !.approvalSequence = seq,
              !.status = status,
              !.finalApproval = FinalApproval(status, u, comments)]

\* a final decision that stamps its status on the steps still pending
FinalizeClosesSteps(doc, seq, status, u, comments) ==
  [doc EXCEPT !.approvalSequence =
                 [i \in DOMAIN seq |->
                    IF seq[i].status = "pending"
                    THEN [seq[i] EXCEPT !.status = status]
                    ELSE seq[i]],
              !.status = status,
              !.finalApproval = FinalApproval(status, u, comments),
              !.currentApprover = NULL]

Finalize(doc, seq, status, u, comments) ==
  [doc EXCEPT !.approvalSequence = seq,
              !.status = status,
              !.finalApproval = FinalApproval(status, u, comments),
              !.currentApprover = NULL]

\* the default threshold: (approvedCount / totalCount) * 100 >= 50
FallbackDecision(doc, seq, u, comments) ==
  IF ApprovedCount(seq) * 100 >= 50 * Len(seq)
  THEN [code |-> 200, branch |-> "fallback",
        doc |-> Finalize(doc, seq, "approved", u, comments)]
  ELSE [code |-> 200, branch |-> "insufficient",
        doc |-> Finalize(doc, seq, "rejected", u, "Insufficient approvals")]

\* the default threshold applied without looking for a pending step
AdvanceOrFallbackNoAdvance(doc, seq, u, comments) == FallbackDecision(doc, seq, u, comments)

\* next pending step becomes the current approver, else the default threshold
AdvanceOrFallback(doc, seq, u, comments) ==
  IF ~NoNextApprover(seq)
  THEN [code |-> 200, branch |-> "advance",
        doc |-> [doc EXCEPT !.approvalSequence = seq,
                            !.currentApprover = getNextApprover(seq).approver]]
  ELSE FallbackDecision(doc, seq, u, comments)

\* the faults of one decision: none, the ApprovalRule query of checkAutoApproval
\* rejects, the ApprovalRule query of checkPercentageApproval rejects
DecisionFaults == {"none", "autoLookup", "percentageLookup"}

\* checkAutoApproval as awaited by the handler: the catch block returns false
TryCheckAutoApproval(ruleList, expense, approverString, fault) ==
  IF fault = "autoLookup" THEN Returns(FALSE)
  ELSE Returns(checkAutoApproval(ruleList, expense, approverString))

\* checkPercentageApproval without its try/catch
TryCheckPercentageApprovalNoCatch(ruleList, expense, approvals, fault) ==
  IF fault = "percentageLookup" THEN Throws
  ELSE Returns(checkPercentageApproval(ruleList, expense, approvals))

\* checkPercentageApproval as awaited by the handler: the catch block returns false
TryCheckPercentageApproval(ruleList, expense, approvals, fault) ==
  IF fault = "percentageLookup" THEN Returns(FALSE)
  ELSE Returns(checkPercentageApproval(ruleList, expense, approvals))

\* the handler's catch block: nothing is saved
HandlerError(doc) == [code |-> 500, branch |-> "Failed to process approval", doc |-> doc]

\* PUT /:id/action after the expense was found: the in-memory mutation
\* (the steps of the loaded expense are populated documents)
DecideSingleUnder(ruleList, doc, u, action, comments, fault) ==
  LET mine == {i \in DOMAIN doc.approvalSequence :
                 /\ IdToString(doc.approvalSequence[i].approver) = IdToString(u)
                 /\ doc.approvalSequence[i].status = "pending"}
  IN IF mine = {} THEN [code |-> 400, branch |-> "You are not the current approver for this expense", doc |-> doc]
     ELSE
       LET currentApprovalIndex == Min(mine)
           statusValue == IF action = "approve" THEN "approved" ELSE "rejected"
           seq == [doc.approvalSequence EXCEPT
                     ![currentApprovalIndex].status = statusValue,
                     ![currentApprovalIndex].comments = comments]
           shouldAutoApprove ==
             TryCheckAutoApproval(ruleList, doc,
                                  DocToString(seq[currentApprovalIndex].approver), fault)
           meetsPercentage == TryCheckPercentageApproval(ruleList, doc, seq, fault)
       IN IF shouldAutoApprove.threw THEN HandlerError(doc)
          ELSE IF action = "reject" \/ shouldAutoApprove.value
          THEN [code |-> 200,
                branch |-> IF action = "reject" THEN "reject" ELSE "auto",
                doc |-> Finalize(doc, seq,
                                 IF action = "reject" THEN "rejected" ELSE "approved",
                                 u, comments)]
          ELSE IF areAllRequiredApprovalsComplete(seq)
               THEN IF meetsPercentage.threw THEN HandlerError(doc)
                    ELSE IF meetsPercentage.value
                    THEN [code |-> 200, branch |-> "percentage",
                          doc |-> Finalize(doc, seq, "approved", u, comments)]
                    ELSE AdvanceOrFallback(doc, seq, u, comments)
               ELSE AdvanceOrFallback(doc, seq, u, comments)

\* the decision when every lookup answers
DecideSingle(ruleList, doc, u, action, comments) ==
  DecideSingleUnder(ruleList, doc, u, action, comments, "none")

\* a bulk decision that keeps only the decided step of the sequence
DecideBulkDecidedStepOnly(doc, u, action, comments) ==
  LET mine == {i \in DOMAIN doc.approvalSequence :
                 /\ IdToString(doc.approvalSequence[i].approver) = IdToString(u)
                 /\ doc.approvalSequence[i].status = "pending"}
  IN IF mine = {} THEN [result |-> "skipped", doc |-> doc]
     ELSE
       LET step == [doc.approvalSequence[Min(mine)] EXCEPT
                      !.status = action, !.comments = comments]
       IN [result |-> "success", doc |-> Finalize(doc, <<step>>, action, u, comments)]

\* PUT /bulk-action: the per-expense body of the loop
DecideBulk(doc, u, action, comments) ==
  LET mine == {i \in DOMAIN doc.approvalSequence :
                 /\ IdToString(doc.approvalSequence[i].approver) = IdToString(u)
                 /\ doc.approvalSequence[i].status = "pending"}
  IN IF mine = {} THEN [result |-> "skipped", doc |-> doc]
     ELSE
       LET currentApprovalIndex == Min(mine)
           seq == [doc.approvalSequence EXCEPT
                     ![currentApprovalIndex].status = action,
                     ![currentApprovalIndex].comments = comments]
       IN IF action = "rejected"
          THEN [result |-> "success", doc |-> Finalize(doc, seq, "rejected", u, comments)]
          ELSE IF areAllRequiredApprovalsComplete(seq)
               THEN [result |-> "success",
                     doc |-> Finalize(doc, seq, "approved", u, comments)]
               ELSE [result |-> "success",
                     doc |-> [doc EXCEPT
                                !.approvalSequence = seq,
                                !.currentApprover =
                                   IF ~NoNextApprover(seq)
                                   THEN getNextApprover(seq).approver
                                   ELSE doc.currentApprover]]

\* an override that stamps its action on every step, pending or not
DecideOverrideEveryStep(doc, u, action, comments) ==
  [doc EXCEPT
     !.status = action,
     !.finalApproval = FinalApproval(action, u, comments),
     !.currentApprover = NULL,
     !.approvalSequence =
        [i \in DOMAIN doc.approvalSequence |->
           [doc.approvalSequence[i] EXCEPT !.status = action,
                                           !.comments = "Overridden by admin"]]]

\* PUT /:id/override after the expense was found: the in-memory mutation
DecideOverride(doc, u, action, comments) ==
  [doc EXCEPT
     !.status = action,
     !.finalApproval =
        FinalApproval(action, u,
                      IF comments # NULL THEN comments
                      ELSE "Overridden by admin: " \o action),
     !.currentApprover = NULL,
     !.approvalSequence =
        [i \in DOMAIN doc.approvalSequence |->
           IF doc.approvalSequence[i].status = "pending"
           THEN [doc.approvalSequence[i] EXCEPT !.status = "overridden",
                                                !.comments = "Overridden by admin"]
           ELSE doc.approvalSequence[i]]]

\* ------------------------------------------------------------------- state
\* an HTTP response: status code, message and (bulk action) the per-expense results
Response(code, message, results) ==
  [code |-> code, message |-> message, results |-> results]

Success(code, message) == Response(code, message, <<>>)

Failure(code, message) == Response(code, message, <<>>)

\* the request that was applied last: who asked what on which expenses, and the
\* stored expenses it found (a refused request leaves NoRequest)
Request(op, u, ids, action, before) ==
  [op |-> op, user |-> u, ids |-> ids, action |-> action, before |-> before]

NoRequest == Request("none", NULL, {}, NULL, <<>>)

IdleRequest == [pc |-> "idle"]

Requests == {1, 2}

Init ==
  /\ rules \in RuleSets
  /\ expenses = <<>>
  /\ built = <<>>
  /\ resp = Response(0, "", <<>>)
  /\ last = NoRequest
  /\ reqs = [r \in Requests |-> IdleRequest]
  /\ mails = <<>>
  /\ flowExpenses = <<>>
  /\ users = Directory

\* the amounts of the expenses of a user; every expense is dated in the current
\* month and submitted in the currency of the company
TotalSpent(exps, userId) ==
  LET sum[i \in 0..Len(exps)] ==
        IF i = 0 THEN 0
        ELSE sum[i - 1] + (IF exps[i].employee = userId
                           THEN exps[i].amountInCompanyCurrency ELSE 0)
  IN sum[Len(exps)]

\* the faults of the mail service: none, the transport rejects the mail
MailFaults == {"none", "sendFails"}

\* a budget alert mail
Mail(userId, kind) == [to |-> userId, kind |-> kind]

\* sendEmail: the mails delivered after sending one; a rejection of the
\* transport is caught and answered with success: false, nothing is thrown
sendEmail(ms, mail, mailFault) ==
  IF mailFault = "sendFails" THEN ms ELSE Append(ms, mail)

\* the outcome of checkBudgetAndSendAlerts
BudgetChecked(us, ms) == [users |-> us, mails |-> ms]

\* checkBudgetAndSendAlerts: budgetPercentage = (totalSpent / monthlyBudget) * 100,
\* compared in exact arithmetic
checkBudgetAndSendAlerts(us, exps, ms, userId, mailFault) ==
  LET user == us[userId]
      totalSpent == TotalSpent(exps, userId)
  IN IF user.monthlyBudget <= 0 THEN BudgetChecked(us, ms)
     ELSE IF /\ totalSpent * 100 >= user.budgetAlertThreshold * user.monthlyBudget
             /\ ~user.budgetAlertSent
     THEN BudgetChecked(
            [us EXCEPT ![userId].budgetAlertSent = TRUE],
            sendEmail(ms, Mail(userId,
                               IF totalSpent * 100 >= 100 * user.monthlyBudget
                               THEN "exceeded" ELSE "alert"),
                      mailFault))
     ELSE BudgetChecked(us, ms)

\* POST / (submit expense)
SubmitUnder(u, amount, category, mailFault) ==
  /\ Len(expenses) < MaxExpenses
  /\ LET company == companyOf(u)
         draft == [employee |-> u, company |-> company,
                   amountInCompanyCurrency |-> amount, category |-> category,
                   status |-> "pending", currentApprover |-> NULL,
                   approvalSequence |-> <<>>, finalApproval |-> NoFinalApproval]
         approvalSequence == determineApprovalSequence(rules, draft, company)
         doc == [draft EXCEPT
                   !.approvalSequence = [i \in DOMAIN approvalSequence |->
                                           CastStep(approvalSequence[i])],
                   !.currentApprover = IF Len(approvalSequence) > 0
                                       THEN approvalSequence[1].approver
                                       ELSE NULL]
         checked == checkBudgetAndSendAlerts(users, Append(expenses, doc), mails, u,
                                             mailFault)
     IN IF Validates(doc)
        THEN /\ expenses' = Append(expenses, doc)
             /\ built' = Append(built, approvalSequence)
             /\ users' = checked.users
             /\ mails' = checked.mails
             /\ resp' = Success(201, "Expense submitted successfully")
             /\ last' = Request("submit", u, {Len(expenses) + 1}, NULL, <<>>)
        ELSE /\ resp' = Failure(500, "Failed to submit expense")
             /\ last' = NoRequest
             /\ UNCHANGED <<expenses, built, users, mails>>
  /\ UNCHANGED <<rules, reqs, flowExpenses>>

\* the submission when the mail service answers
Submit(u, amount, category) == SubmitUnder(u, amount, category, "none")

\* a query by identifier and company only
FoundForActionById(u, id) ==
  /\ id \in DOMAIN expenses
  /\ expenses[id].company = companyOf(u)

\* a query that does not ask for the current approver
FoundForActionAnyApprover(u, id) ==
  /\ id \in DOMAIN expenses
  /\ expenses[id].company = companyOf(u)
  /\ expenses[id].status = "pending"

\* the query of PUT /:id/action
FoundForAction(u, id) ==
  /\ id \in DOMAIN expenses
  /\ expenses[id].company = companyOf(u)
  /\ expenses[id].status = "pending"
  /\ expenses[id].currentApprover = u

\* PUT /:id/action
ActionUnder(u, id, action, comments, fault) ==
  /\ IF ~isManager(u)
     THEN /\ resp' = Failure(403, "Access denied")
          /\ last' = NoRequest
          /\ UNCHANGED expenses
     ELSE IF ~FoundForAction(u, id)
     THEN /\ resp' = Failure(404, "Expense not found or not assigned to you for approval")
          /\ last' = NoRequest
          /\ UNCHANGED expenses
     ELSE LET r == DecideSingleUnder(rules, expenses[id], u, action, comments, fault)
          IN IF r.code # 200
             THEN /\ resp' = Failure(r.code, r.branch)
                  /\ last' = NoRequest
                  /\ UNCHANGED expenses
             ELSE IF ~Validates(r.doc)
             THEN /\ resp' = Failure(500, "Failed to process approval")
                  /\ last' = NoRequest
                  /\ UNCHANGED expenses
             ELSE /\ resp' = Success(200, "Expense " \o action \o "d successfully")
                  /\ last' = Request("action", u, {id}, action, [i \in {id} |-> expenses[i]])
                  /\ expenses' = [expenses EXCEPT ![id] = r.doc]
  /\ UNCHANGED <<rules, built, reqs, users, mails, flowExpenses>>

\* the request when every lookup answers
Action(u, id, action, comments) == ActionUnder(u, id, action, comments, "none")

\* a bulk query that drops the expenses listed after one the user has no
\* pending step of
FoundForBulkUpToSkip(u, ids) ==
  {id \in ids \cap DOMAIN expenses :
     /\ expenses[id].company = companyOf(u)
     /\ expenses[id].status = "pending"
     /\ (role(u) = "manager" => expenses[id].currentApprover = u)
     /\ \A other \in ids \cap DOMAIN expenses :
           other < id => \E i \in DOMAIN expenses[other].approvalSequence :
                            /\ expenses[other].approvalSequence[i].approver = u
                            /\ expenses[other].approvalSequence[i].status = "pending"}

\* a bulk query without the company condition
FoundForBulkAnyCompany(u, ids) ==
  {id \in ids \cap DOMAIN expenses :
     /\ expenses[id].status = "pending"
     /\ (role(u) = "manager" => expenses[id].currentApprover = u)}

\* the query of PUT /bulk-action
FoundForBulk(u, ids) ==
  {id \in ids \cap DOMAIN expenses :
     /\ expenses[id].company = companyOf(u)
     /\ expenses[id].status = "pending"
     /\ (role(u) = "manager" => expenses[id].currentApprover = u)}

\* PUT /bulk-action
BulkAction(u, ids, action, comments) ==
  /\ IF ~isManager(u)
     THEN /\ resp' = Failure(403, "Access denied")
          /\ last' = NoRequest
          /\ UNCHANGED expenses
     ELSE IF ids = {}
     THEN /\ resp' = Failure(400, "Expense IDs array is required")
          /\ last' = NoRequest
          /\ UNCHANGED expenses
     ELSE IF FoundForBulk(u, ids) = {}
     THEN /\ resp' = Failure(404, "No valid expenses found for bulk action")
          /\ last' = NoRequest
          /\ UNCHANGED expenses
     ELSE LET found == FoundForBulk(u, ids)
              r == [id \in found |-> DecideBulk(expenses[id], u, action, comments)]
              saved(id) == r[id].result = "success" /\ Validates(r[id].doc)
          IN /\ expenses' = [id \in DOMAIN expenses |->
                               IF id \in found /\ saved(id) THEN r[id].doc
                               ELSE expenses[id]]
             /\ resp' = Response(200, "Bulk " \o action \o " completed",
                          [id \in found |->
                             IF r[id].result = "skipped" THEN "skipped"
                             ELSE IF saved(id) THEN "success" ELSE "error"])
             /\ last' = Request("bulk", u, found, action, [i \in found |-> expenses[i]])
  /\ UNCHANGED <<rules, built, reqs, users, mails, flowExpenses>>

\* PUT /:id/override
Override(u, id, action, comments) ==
  /\ IF ~isAdmin(u)
     THEN /\ resp' = Failure(403, "Access denied")
          /\ last' = NoRequest
          /\ UNCHANGED expenses
     ELSE IF ~(id \in DOMAIN expenses /\ expenses[id].company = companyOf(u))
     THEN /\ resp' = Failure(404, "Expense not found")
          /\ last' = NoRequest
          /\ UNCHANGED expenses
     ELSE LET doc == DecideOverride(expenses[id], u, action, comments)
          IN IF Validates(doc)
             THEN /\ resp' = Success(200, "Expense " \o action \o " by admin override")
                  /\ last' = Request("override", u, {id}, action, [i \in {id} |-> expenses[i]])
                  /\ expenses' = [expenses EXCEPT ![id] = doc]
             ELSE /\ resp' = Failure(500, "Failed to override approval")
                  /\ last' = NoRequest
                  /\ UNCHANGED expenses
  /\ UNCHANGED <<rules, built, reqs, users, mails, flowExpenses>>

\* PUT /:id/cancel
Cancel(u, id) ==
  /\ IF /\ id \in DOMAIN expenses
        /\ expenses[id].employee = u
        /\ expenses[id].status = "pending"
     THEN /\ expenses' = [expenses EXCEPT ![id].status = "cancelled"]
          /\ resp' = Success(200, "Expense cancelled successfully")
          /\ last' = Request("cancel", u, {id}, NULL, [i \in {id} |-> expenses[i]])
     ELSE /\ resp' = Failure(404, "Expense not found or cannot be cancelled")
          /\ last' = NoRequest
          /\ UNCHANGED expenses
  /\ UNCHANGED <<rules, built, reqs, users, mails, flowExpenses>>

\* an update that determines the approval sequence again from the new values
UpdateRebuilds(u, id, amount, category) ==
  /\ IF /\ id \in DOMAIN expenses
        /\ expenses[id].employee = u
        /\ expenses[id].status = "pending"
     THEN LET updated == [expenses[id] EXCEPT !.amountInCompanyCurrency = amount,
                                              !.category = category]
              approvalSequence ==
                determineApprovalSequence(rules, updated, updated.company)
          IN /\ expenses' =
                  [expenses EXCEPT
                     ![id] = [updated EXCEPT
                                !.approvalSequence =
                                   [i \in DOMAIN approvalSequence |->
                                      CastStep(approvalSequence[i])],
                                !.currentApprover =
                                   IF Len(approvalSequence) > 0
                                   THEN approvalSequence[1].approver ELSE NULL]]
             /\ resp' = Success(200, "Expense updated successfully")
             /\ last' = Request("update", u, {id}, NULL, [i \in {id} |-> expenses[i]])
     ELSE /\ resp' = Failure(404, "Expense not found or cannot be modified")
          /\ last' = NoRequest
          /\ UNCHANGED expenses
  /\ UNCHANGED <<rules, built, reqs, users, mails, flowExpenses>>

\* PUT /:id (update expense): the allowed fields of a pending expense of the
\* user are replaced; the approval fields are not among them
Update(u, id, amount, category) ==
  /\ IF /\ id \in DOMAIN expenses
        /\ expenses[id].employee = u
        /\ expenses[id].status = "pending"
     THEN /\ expenses' = [expenses EXCEPT ![id].amountInCompanyCurrency = amount,
                                          ![id].category = category]
          /\ resp' = Success(200, "Expense updated successfully")
          /\ last' = Request("update", u, {id}, NULL, [i \in {id} |-> expenses[i]])
     ELSE /\ resp' = Failure(404, "Expense not found or cannot be modified")
          /\ last' = NoRequest
          /\ UNCHANGED expenses
  /\ UNCHANGED <<rules, built, reqs, users, mails, flowExpenses>>

\* ------------------------------------------- concurrent requests (interleaved)
\* expense.save(): the paths modified since the document was loaded are written
SaveModified(stored, loaded, mem) ==
  [stored EXCEPT
     !.status = IF mem.status # loaded.status THEN mem.status ELSE @,
     !.currentApprover =
        IF mem.currentApprover # loaded.currentApprover THEN mem.currentApprover ELSE @,
     !.finalApproval =
        IF mem.finalApproval # loaded.finalApproval THEN mem.finalApproval ELSE @,
     !.approvalSequence =
        [i \in DOMAIN stored.approvalSequence |->
           [stored.approvalSequence[i] EXCEPT
              !.status = IF mem.approvalSequence[i].status # loaded.approvalSequence[i].status
                         THEN mem.approvalSequence[i].status ELSE @,
              !.comments = IF mem.approvalSequence[i].comments
                               # loaded.approvalSequence[i].comments
                            THEN mem.approvalSequence[i].comments ELSE @]]]

DoneRequest(u, id, action, code) ==
  [pc |-> "done", user |-> u, id |-> id, action |-> action, code |-> code]

\* PUT /:id/action up to the await before expense.save(): the query and the
\* in-memory mutation of the loaded document
ActionLoad(r, u, id, action, comments) ==
  /\ reqs[r].pc = "idle"
  /\ isManager(u)
  /\ reqs' = [reqs EXCEPT ![r] =
       IF ~FoundForAction(u, id) THEN DoneRequest(u, id, action, 404)
       ELSE LET d == DecideSingle(rules, expenses[id], u, action, comments)
            IN IF d.code # 200 THEN DoneRequest(u, id, action, d.code)
               ELSE [pc |-> "loaded", user |-> u, id |-> id, action |-> action,
                     loaded |-> expenses[id], mem |-> d.doc]]
  /\ UNCHANGED <<rules, expenses, built, resp, last, users, mails, flowExpenses>>

\* PUT /:id/action from expense.save() to the response
ActionSave(r) ==
  /\ reqs[r].pc = "loaded"
  /\ LET q == reqs[r]
     IN IF Validates(q.mem)
        THEN /\ expenses' = [expenses EXCEPT
                               ![q.id] = SaveModified(expenses[q.id], q.loaded, q.mem)]
             /\ reqs' = [reqs EXCEPT ![r] = DoneRequest(q.user, q.id, q.action, 200)]
        ELSE /\ reqs' = [reqs EXCEPT ![r] = DoneRequest(q.user, q.id, q.action, 500)]
             /\ UNCHANGED expenses
  /\ UNCHANGED <<rules, built, resp, last, users, mails, flowExpenses>>

Submitters == {"emp"}

Next ==
  \/ \E u \in Submitters, in \in SubmitInputs : Submit(u, in[1], in[2])
  \/ \E u \in Users, id \in ExpenseIds, action \in {"approve", "reject"}, c \in Comments :
        Action(u, id, action, c)
  \/ \E u \in Users, ids \in SUBSET ExpenseIds, action \in {"approved", "rejected"},
        c \in Comments :
        BulkAction(u, ids, action, c)
  \/ \E u \in Users, id \in ExpenseIds, action \in {"approved", "rejected"},
        c \in OverrideComments :
        Override(u, id, action, c)
  \/ \E u \in Users, id \in ExpenseIds : Cancel(u, id)
  \/ \E u \in Users, id \in ExpenseIds, in \in UpdateInputs : Update(u, id, in[1], in[2])

Spec == Init /\ [][Next]_vars

\* requests whose query, mutation and save are separate steps
NextRace ==
  \/ \E u \in Submitters, in \in SubmitInputs : Submit(u, in[1], in[2])
  \/ \E r \in Requests, u \in Users, id \in ExpenseIds, action \in {"approve", "reject"},
        c \in Comments :
        ActionLoad(r, u, id, action, c)
  \/ \E r \in Requests : ActionSave(r)

SpecRace == Init /\ [][NextRace]_vars

\* a sequential rule whose only approver was deleted from the User collection
DanglingRule == SequentialRule(1, <<SeqApprover(NULL, 1, TRUE)>>)

\* a new expense of employee u, before its sequence is determined
Draft(u, amount, category) ==
  [employee |-> u, company |-> companyOf(u),
   amountInCompanyCurrency |-> amount, category |-> category,
   status |-> "pending", currentApprover |-> NULL,
   approvalSequence |-> <<>>, finalApproval |-> NoFinalApproval]

\* any rule configuration, the seeded User collection
InitDetermine ==
  /\ rules \in RuleSets \cup {<<DanglingRule>>}
  /\ expenses = <<>>
  /\ built = <<>>
  /\ resp = Response(0, "", <<>>)
  /\ last = NoRequest
  /\ reqs = [r \in Requests |-> IdleRequest]
  /\ mails = <<>>
  /\ flowExpenses = <<>>
  /\ users = Directory

\* one call of determineApprovalSequence(expense, company): the returned
\* sequence, or the error thrown to the caller
Determine(u, amount, category, fault) ==
  LET r == TryDetermineApprovalSequence(rules, Draft(u, amount, category),
                                        companyOf(u), fault)
  IN /\ built' = <<r.value>>
     /\ resp' = IF r.threw THEN Failure(500, "Failed to submit expense")
                ELSE Response(0, "", <<>>)
     /\ last' = Request("determine", u, {}, fault, <<Draft(u, amount, category)>>)
     /\ UNCHANGED <<rules, expenses, reqs, users, mails, flowExpenses>>

\* the users whose expense the sequence is determined for: an employee with a
\* direct manager and a manager without one
DetermineUsers == {"emp", "A"}

NextDetermine ==
  \E u \in DetermineUsers, in \in SubmitInputs, fault \in Faults :
     Determine(u, in[1], in[2], fault)

SpecDetermine == InitDetermine /\ [][NextDetermine]_vars

\* the User collections the default sequence is computed on: the employee with
\* or without direct manager, managers that approve or not, inactive users
Directories ==
  { [Directory EXCEPT !["emp"].manager = m,
                      !["A"].isManagerApprover = a,
                      !["B"].isManagerApprover = b,
                      !["A"].isActive = aActive,
                      !["B"].isActive = bActive,
                      !["C"].isActive = cActive,
                      !["adm"].isActive = admActive] :
      m \in {NULL, "A"}, a \in BOOLEAN, b \in BOOLEAN, aActive \in BOOLEAN,
      bActive \in BOOLEAN,
      cActive \in BOOLEAN, admActive \in BOOLEAN }

\* a company without approval rules and any of the User collections
InitDefault ==
  /\ rules = <<>>
  /\ expenses = <<>>
  /\ built = <<>>
  /\ resp = Response(0, "", <<>>)
  /\ last = NoRequest
  /\ reqs = [r \in Requests |-> IdleRequest]
  /\ mails = <<>>
  /\ flowExpenses = <<>>
  /\ users \in Directories

NextDefault == \E u \in Submitters, in \in SubmitInputs : Submit(u, in[1], in[2])

SpecDefault == InitDefault /\ [][NextDefault]_vars


\* ------------------------------------------------------------------ claims
Pending(id) == id \in DOMAIN expenses /\ expenses[id].status = "pending"

OwnsPendingStep(u, id) ==
  \E i \in DOMAIN expenses[id].approvalSequence :
     /\ expenses[id].approvalSequence[i].approver = u
     /\ expenses[id].approvalSequence[i].status = "pending"

\* u is a designated specific approver of the company
ListedSpecificApprover(u, company) ==
  \E i \in DOMAIN rules :
     /\ rules[i].company = company /\ rules[i].isActive
     /\ rules[i].type \in {"specific_approver", "hybrid"}
     /\ Includes(rules[i].specificApprovers, u)

HasPercentageRule(company) ==
  \E i \in DOMAIN rules :
     /\ rules[i].company = company /\ rules[i].isActive
     /\ rules[i].type \in {"percentage", "hybrid"}

RejectedBy(e, u) ==
  /\ e.status = "rejected"
  /\ e.finalApproval.rejectedBy = u
  /\ e.finalApproval.approvedBy = NULL
  /\ e.currentApprover = NULL

ApprovedBy(e, u) ==
  /\ e.status = "approved"
  /\ e.finalApproval.approvedBy = u
  /\ e.finalApproval.rejectedBy = NULL
  /\ e.currentApprover = NULL

\* C1: a reject decision of the current approver, by the single-decision action
\* or by the bulk action, makes the expense rejected with that approver as
\* rejectedBy and no current approver, whatever steps are still pending and
\* also when the approver is a designated specific approver.
C1_RejectIsTerminal ==
  /\ (last.op = "action" /\ last.action = "reject")
        => \A id \in last.ids : RejectedBy(expenses[id], last.user)
  /\ (last.op = "bulk" /\ last.action = "rejected")
        => \A id \in last.ids :
              last.before[id].currentApprover = last.user
                 => RejectedBy(expenses[id], last.user)

\* a designated specific approver has rejected while a later step is still pending
C1_Witness ==
  \E id \in DOMAIN expenses :
     LET e == expenses[id]
     IN /\ e.status = "rejected"
        /\ e.currentApprover = NULL
        /\ ListedSpecificApprover(e.finalApproval.rejectedBy, e.company)
        /\ \E i, j \in DOMAIN e.approvalSequence :
             /\ e.approvalSequence[i].approver = e.finalApproval.rejectedBy
             /\ e.approvalSequence[i].status = "rejected"
             /\ e.approvalSequence[j].status = "pending"


Decided(id) == id \in DOMAIN expenses /\ expenses[id].status \in {"approved", "rejected"}

\* the error responses of PUT /:id/action
ActionFailures ==
  { Failure(403, "Access denied"),
    Failure(404, "Expense not found or not assigned to you for approval"),
    Failure(400, "You are not the current approver for this expense"),
    Failure(500, "Failed to process approval") }

\* the error responses of PUT /bulk-action
BulkFailures ==
  { Failure(403, "Access denied"),
    Failure(400, "Expense IDs array is required"),
    Failure(404, "No valid expenses found for bulk action") }

\* C2: once an expense is approved or rejected, no single or bulk decision of
\* any user changes it: the request is refused with an error, or the expense is
\* not among the expenses the bulk action processes.
C2_DecidedIsImmutable ==
  [][\A id \in DOMAIN expenses :
       (Decided(id) /\ (last'.op \in {"action", "bulk"}
                          \/ resp' \in ActionFailures \cup BulkFailures))
          => /\ expenses'[id] = expenses[id]
             /\ id \notin last'.ids]_vars

\* every expense is decided and a single decision was just refused
C2_Witness ==
  /\ \A id \in ExpenseIds : Decided(id)
  /\ resp = Failure(404, "Expense not found or not assigned to you for approval")
  /\ last = NoRequest

\* C3: two concurrent approve requests on the same pending single-step expense
\* do not both succeed: one wins, the other receives an error.
C3_ExactlyOneWins ==
  \A r1, r2 \in Requests :
     (/\ r1 # r2
      /\ reqs[r1].pc = "done" /\ reqs[r2].pc = "done"
      /\ reqs[r1].action = "approve" /\ reqs[r2].action = "approve"
      /\ reqs[r1].id = reqs[r2].id
      /\ reqs[r1].id \in DOMAIN expenses
      /\ Len(expenses[reqs[r1].id].approvalSequence) = 1)
        => ~(reqs[r1].code = 200 /\ reqs[r2].code = 200)

\* the expense was built from a sequential rule [a seq=1 required, b seq=2
\* required] and no percentage, hybrid or specific-approver rule is active
TwoRequiredSteps(id) ==
  /\ Len(built[id]) = 2
  /\ built[id][1].sequence = 1 /\ built[id][2].sequence = 2
  /\ built[id][1].isRequired /\ built[id][2].isRequired
  /\ built[id][1].approver # built[id][2].approver
  /\ \A i \in DOMAIN rules :
        (rules[i].company = expenses[id].company /\ rules[i].isActive)
           => rules[i].type = "sequential"

C5_SpecificApproverFinalizes ==
  (last.op = "action" /\ last.action = "approve") =>
     \A id \in last.ids :
        ListedSpecificApprover(last.user, expenses[id].company)
           => ApprovedBy(expenses[id], last.user)

\* the branch the single-decision action took on the expense it found
BranchTaken(id) ==
  DecideSingle(rules, last.before[id], last.user, last.action,
               CHOOSE c \in Comments : TRUE).branch

\* a required step (as built at submission) is still pending
RequiredStepPending(id) ==
  \E i \in DOMAIN built[id] :
     built[id][i].isRequired /\ expenses[id].approvalSequence[i].status = "pending"

PercentageSatisfied(id) ==
  \E i \in DOMAIN rules :
     /\ rules[i].company = expenses[id].company /\ rules[i].isActive
     /\ rules[i].type \in {"percentage", "hybrid"}
     /\ ApprovedCount(expenses[id].approvalSequence) * 100
          >= rules[i].percentage * Len(expenses[id].approvalSequence)

\* C6: after an approve that is no auto-approval, once every required step has
\* left pending and a percentage is reached (inclusive), the expense is
\* approved; the percentage check never finalizes while a required step is
\* pending.
C6_PercentageAfterRequired ==
  (last.op = "action" /\ last.action = "approve") =>
     \A id \in last.ids :
        /\ (/\ ~ListedSpecificApprover(last.user, expenses[id].company)
            /\ ~RequiredStepPending(id)
            /\ PercentageSatisfied(id))
              => ApprovedBy(expenses[id], last.user)
        /\ BranchTaken(id) = "percentage" => ~RequiredStepPending(id)

\* one approval of a two-step sequence, in a company without percentage rule
OneOfTwo(id) ==
  /\ Len(expenses[id].approvalSequence) = 2
  /\ ApprovedCount(expenses[id].approvalSequence) = 1
  /\ ~HasPercentageRule(expenses[id].company)

\* C7 as stated: without percentage rule, 1 approval of 2 finalizes the expense
\* approved, and the default threshold is never evaluated with 0 approvals.
C7_OneOfTwoFinalizes ==
  (last.op = "action" /\ last.action = "approve") =>
     \A id \in last.ids :
        /\ OneOfTwo(id) => expenses[id].status = "approved"
        /\ BranchTaken(id) \in {"fallback", "insufficient"}
              => ApprovedCount(expenses[id].approvalSequence) >= 1

\* C7 amended: without percentage rule (and for an approver who is no
\* designated specific approver), 1 approval of 2 by the single-decision action
\* leaves the expense pending and makes the owner of the pending step the
\* current approver; the default threshold is evaluated only when no step is
\* pending, never with 0 approvals.
C7_OneOfTwoAdvances ==
  (last.op = "action" /\ last.action = "approve") =>
     \A id \in last.ids :
        /\ (OneOfTwo(id) /\ ~ListedSpecificApprover(last.user, expenses[id].company))
              => /\ expenses[id].status = "pending"
                 /\ expenses[id].finalApproval = NoFinalApproval
                 /\ PendingIndexes(expenses[id].approvalSequence) # {}
                 /\ expenses[id].currentApprover =
                      getNextApprover(expenses[id].approvalSequence).approver
        /\ BranchTaken(id) \in {"fallback", "insufficient"}
              => /\ PendingIndexes(expenses[id].approvalSequence) = {}
                 /\ ApprovedCount(expenses[id].approvalSequence) >= 1

\* the first of two approvers has approved: the expense waits for the second
C7_Witness ==
  /\ last.op = "action" /\ last.action = "approve"
  /\ \E id \in last.ids :
        /\ OneOfTwo(id)
        /\ ~ListedSpecificApprover(last.user, expenses[id].company)
        /\ expenses[id].status = "pending"
        /\ expenses[id].approvalSequence[2].status = "pending"
        /\ expenses[id].currentApprover = expenses[id].approvalSequence[2].approver

\* the rule of the example was selected for the expense
TravelRuleSelected(id) == built[id] = buildApprovalSequence(TravelRule, expenses[id])

\* C8: the rule with amountThreshold {100, 1000} and categoryFilter ["Travel"]
\* is not selected for amount 50, not selected for category "Meals", and is
\* selected for amount 500 and category "Travel".
C8_AmountAndCategoryMatch ==
  (rules = <<TravelRule>> /\ last.op = "submit") =>
     \A id \in last.ids :
        /\ expenses[id].amountInCompanyCurrency = 50 => ~TravelRuleSelected(id)
        /\ expenses[id].category = "Meals" => ~TravelRuleSelected(id)
        /\ (expenses[id].amountInCompanyCurrency = 500 /\ expenses[id].category = "Travel")
              => TravelRuleSelected(id)

TwoPendingSteps(id) == Cardinality(PendingIndexes(expenses[id].approvalSequence)) = 2

\* C9: the override of a pending expense with 2 pending steps stores the
\* override action as status, the admin in finalApproval, no current approver,
\* and both pending steps as overridden; other steps keep their status.
C9_OverrideStoresOverridden ==
  [][\A u \in Users, id \in DOMAIN expenses, action \in {"approved", "rejected"},
        c \in OverrideComments :
       (/\ isAdmin(u) /\ expenses[id].company = companyOf(u)
        /\ Pending(id) /\ TwoPendingSteps(id)
        /\ Override(u, id, action, c))
          => /\ resp'.code = 200
             /\ expenses'[id].status = action
             /\ expenses'[id].currentApprover = NULL
             /\ expenses'[id].finalApproval # NoFinalApproval
             /\ \A i \in DOMAIN expenses[id].approvalSequence :
                  expenses'[id].approvalSequence[i].status =
                     IF expenses[id].approvalSequence[i].status = "pending"
                     THEN "overridden"
                     ELSE expenses[id].approvalSequence[i].status]_vars

\* C10: a single decision is applied only when the expense belongs to the
\* user's company, is pending, has the user as current approver, and the user
\* owns a pending step of it; any other single-decision request is answered
\* with an error and changes no expense.
C10_DecisionPreconditions ==
  [][/\ resp' \in ActionFailures => expenses' = expenses
     /\ last'.op = "action" =>
          /\ resp'.code = 200
          /\ \A id \in last'.ids :
               /\ Pending(id)
               /\ expenses[id].company = companyOf(last'.user)
               /\ expenses[id].currentApprover = last'.user
               /\ OwnsPendingStep(last'.user, id)]_vars

\* every expense is pending and a single decision was just refused
C10_Witness ==
  /\ \A id \in ExpenseIds : Pending(id)
  /\ resp = Failure(404, "Expense not found or not assigned to you for approval")
  /\ last = NoRequest

\* the rule's amount range contains the expense's amount and its category
\* filter is empty or contains the expense's category
InRangeAndCategory(rule, e) ==
  /\ Exists(rule.amountThreshold, "minAmount")
        => rule.amountThreshold.minAmount <= e.amountInCompanyCurrency
  /\ Exists(rule.amountThreshold, "maxAmount")
        => rule.amountThreshold.maxAmount >= e.amountInCompanyCurrency
  /\ (Len(rule.categoryFilter) = 0 \/ Includes(rule.categoryFilter, e.category))

\* the active rules of the expense's company that match the expense
EligibleRules(e) ==
  {i \in DOMAIN rules : /\ rules[i].isActive
                        /\ rules[i].company = e.company
                        /\ InRangeAndCategory(rules[i], e)}

\* C11: the sequence of a submitted expense is built from the highest-priority
\* rule among the active rules of the company whose amount range and category
\* filter match the expense (the default sequence when there is none); inactive
\* rules and rules of other companies are never selected.
C11_HighestPriorityMatchSelected ==
  last.op = "submit" =>
     \A id \in last.ids :
        LET eligible == EligibleRules(expenses[id])
        IN IF eligible = {}
           THEN built[id] = getDefaultApprovalSequence(expenses[id])
           ELSE \E i \in eligible :
                  /\ \A j \in eligible : rules[j].priority <= rules[i].priority
                  /\ built[id] = buildApprovalSequence(rules[i], expenses[id])

\* the active managers of a company, approving or not
ActiveManagers(company) ==
  {u \in Users : companyOf(u) = company /\ role(u) = "manager" /\ isActive(u)}

ActiveAdmins(company) ==
  {u \in Users : companyOf(u) = company /\ role(u) = "admin" /\ isActive(u)}

\* the sequence is one step for one of the users of S
SingleStepFor(seq, S) == Len(seq) = 1 /\ seq[1].approver \in S /\ seq[1].status = "pending"

FinalApprovalSet(e) == e.finalApproval # NoFinalApproval

\* C13: finalApproval is populated exactly when the status is approved or
\* rejected, and once populated it is never overwritten by a later decision,
\* bulk action, override, cancel or update.
C13_FinalApprovalSetOnce ==
  [][/\ \A id \in DOMAIN expenses' :
          FinalApprovalSet(expenses'[id]) <=> expenses'[id].status \in {"approved", "rejected"}
     /\ \A id \in DOMAIN expenses :
          FinalApprovalSet(expenses[id])
             => expenses'[id].finalApproval = expenses[id].finalApproval]_vars

\* C14: a step that has left pending keeps its status and its decision
\* metadata: no single decision, bulk action, override, cancel or update
\* changes it again (in particular it never reverts to pending).
C14_DecidedStepIsFrozen ==
  [][\A id \in DOMAIN expenses :
       \A i \in DOMAIN expenses[id].approvalSequence :
          expenses[id].approvalSequence[i].status # "pending"
             => expenses'[id].approvalSequence[i] = expenses[id].approvalSequence[i]]_vars

\* a decision or an override has changed an expense that already had an
\* approved step, and that step is as it was
C14_Witness ==
  /\ last.op \in {"override", "action"}
  /\ \E id \in last.ids :
        \E i \in DOMAIN expenses[id].approvalSequence :
           /\ last.before[id].approvalSequence[i].status = "approved"
           /\ expenses[id].approvalSequence[i] = last.before[id].approvalSequence[i]
           /\ expenses[id] # last.before[id]

\* C15: an expense whose status is approved, rejected or cancelled has no
\* current approver.
C15_TerminalHasNoCurrentApprover ==
  \A id \in DOMAIN expenses :
     expenses[id].status \in {"approved", "rejected", "cancelled"}
        => expenses[id].currentApprover = NULL

\* C16: an expense becomes cancelled only from pending and only by the cancel
\* of its employee; cancel is refused on an expense that is not pending; and a
\* cancelled expense never changes its status again.
C16_CancelledIsTerminal ==
  [][/\ \A id \in DOMAIN expenses :
          /\ (expenses'[id].status = "cancelled" /\ expenses[id].status # "cancelled")
                => /\ expenses[id].status = "pending"
                   /\ last'.op = "cancel" /\ id \in last'.ids
                   /\ last'.user = expenses[id].employee
          /\ expenses[id].status = "cancelled" => expenses'[id].status = "cancelled"
     /\ last'.op = "cancel" => \A id \in last'.ids : expenses[id].status = "pending"
     /\ resp' = Failure(404, "Expense not found or cannot be cancelled")
           => expenses' = expenses]_vars

\* the error responses of PUT /:id/override
OverrideFailures ==
  { Failure(403, "Access denied"),
    Failure(404, "Expense not found"),
    Failure(500, "Failed to override approval") }

\* C17: the override is applied only to a pending expense; on an approved,
\* rejected or cancelled expense it is answered with an error and the expense
\* is left unchanged.
C17_OverrideOnlyPending ==
  [][/\ last'.op = "override"
          => \A id \in last'.ids : expenses[id].status = "pending"
     /\ resp' \in OverrideFailures => expenses' = expenses
     /\ \A id \in DOMAIN expenses :
          (expenses[id].status # "pending" /\ expenses'[id] # expenses[id])
             => last'.op # "override"]_vars

\* every property of the produced step is a property of the stored step
StoredAsProduced(stored, produced) ==
  \A field \in DOMAIN produced :
     Exists(stored, field) /\ stored[field] = produced[field]

Approvers(seq) == [i \in DOMAIN seq |-> seq[i].approver]

\* C18: a submitted expense is stored pending, with the sequence produced by
\* determineApprovalSequence (all steps pending) and the approver of its first
\* step as current approver; the sequence is built once, at submission: no
\* later operation rebuilds or reorders it.
C18_SubmittedAsBuilt ==
  [][/\ last'.op = "submit" =>
          \A id \in last'.ids :
             LET e == expenses'[id]
             IN /\ e.status = "pending"
                /\ Len(e.approvalSequence) = Len(built'[id])
                /\ \A i \in DOMAIN built'[id] :
                     /\ StoredAsProduced(e.approvalSequence[i], built'[id][i])
                     /\ e.approvalSequence[i].status = "pending"
                /\ Len(built'[id]) > 0 => e.currentApprover = built'[id][1].approver
     /\ \A id \in DOMAIN expenses :
          /\ built'[id] = built[id]
          /\ Approvers(expenses'[id].approvalSequence)
                = Approvers(expenses[id].approvalSequence)]_vars

\* C19: when the User queries work, determineApprovalSequence returns to its
\* caller and never throws; when the rule query fails, no rule matches, or
\* building the sequence of the selected rule throws, what it returns is the
\* default sequence.
C19_FallsBackToDefault ==
  (last.op = "determine" /\ last.action # "userLookup") =>
     LET e == last.before[1]
         found == MatchingRules(rules, e, e.company)
     IN /\ resp.code # 500
        /\ (\/ last.action = "ruleLookup"
            \/ Len(found) = 0
            \/ found[1] = DanglingRule)
              => built[1] = getDefaultApprovalSequence(e)

\* the rule query failed, and building from the selected rule threw: the
\* default sequence was returned
C19_Witness ==
  /\ last.op = "determine"
  /\ resp.code # 500
  /\ built[1] = <<DefaultStep("A")>>
  /\ last.user = "emp"
  /\ \/ last.action = "ruleLookup" /\ Len(rules) > 0
     \/ last.action = "none" /\ rules = <<DanglingRule>>

StepStatuses(seq) == [i \in DOMAIN seq |-> seq[i].status]

\* the expense as the single-decision action would leave it
AfterSingle(doc, u, bulkAction) ==
  DecideSingle(rules, doc, u, IF bulkAction = "approved" THEN "approve" ELSE "reject",
               CHOOSE c \in Comments : TRUE).doc

\* C20: for a pending expense and its current approver, the bulk action leaves
\* the same status, current approver and step statuses as the single-decision
\* action with the corresponding decision.
C20_BulkAsSingle ==
  last.op = "bulk" =>
     \A id \in last.ids :
        last.before[id].currentApprover = last.user =>
           LET single == AfterSingle(last.before[id], last.user, last.action)
           IN /\ expenses[id].status = single.status
              /\ expenses[id].currentApprover = single.currentApprover
              /\ StepStatuses(expenses[id].approvalSequence)
                    = StepStatuses(single.approvalSequence)

\* the rule determineApprovalSequence selected for the expense of the last call
SelectedRule == MatchingRules(rules, last.before[1], last.before[1].company)[1]

RuleSelected(type) ==
  /\ last.op = "determine" /\ last.action = "none"
  /\ Len(MatchingRules(rules, last.before[1], last.before[1].company)) > 0
  /\ SelectedRule.type = type
  /\ SelectedRule # DanglingRule

\* C21: buildSequentialSequence returns one pending step per configured
\* approver, in ascending order of the configured sequence numbers, with the
\* configured sequence and isRequired; buildSpecificApproverSequence returns one
\* pending required step per listed approver, in list order, numbered from 1.
C21_BuiltStepsAsConfigured ==
  /\ RuleSelected("sequential") =>
        LET conf == SelectedRule.sequential
            seq == built[1]
        IN /\ Len(seq) = Len(conf)
           /\ \A i, j \in DOMAIN seq : i < j => seq[i].sequence <= seq[j].sequence
           /\ \A j \in DOMAIN conf :
                Cardinality({i \in DOMAIN seq :
                                /\ seq[i].approver = conf[j].approver
                                /\ seq[i].sequence = conf[j].sequence
                                /\ seq[i].isRequired = conf[j].isRequired}) = 1
           /\ \A i \in DOMAIN seq : seq[i].status = "pending"
  /\ RuleSelected("specific_approver") =>
        LET listed == SelectedRule.specificApprovers
            seq == built[1]
        IN /\ Len(seq) = Len(listed)
           /\ \A i \in DOMAIN seq :
                seq[i] = [approver |-> listed[i], sequence |-> i,
                          isRequired |-> TRUE, status |-> "pending"]

\* a rule configured as [B seq=2, A seq=1] was built as [A, B]
C21_Witness ==
  /\ RuleSelected("sequential")
  /\ Approvers(SelectedRule.sequential) = <<"B", "A">>
  /\ Approvers(built[1]) = <<"A", "B">>

\* the sequence the claim describes for a percentage or hybrid rule
DynamicSequence(rule) ==
  LET n == IF rule.type = "hybrid" THEN Len(rule.specificApprovers) ELSE 0
  IN [i \in 1..(n + 1) |->
        IF i <= n
        THEN [approver |-> rule.specificApprovers[i], sequence |-> i,
              isRequired |-> TRUE, status |-> "pending"]
        ELSE [approver |-> NULL, sequence |-> n + 1, isRequired |-> FALSE,
              status |-> "pending", percentage |-> rule.percentage]]

\* C22: under a percentage rule the sequence is one dynamic step (approver
\* null) carrying the percentage; under a hybrid rule with n specific approvers
\* it is n required steps followed by one dynamic step numbered n+1 carrying
\* the percentage; the submitted expense is stored pending with that sequence.
C22_DynamicSequenceStored ==
  [][\A u \in Submitters, in \in SubmitInputs :
       LET found == MatchingRules(rules, Draft(u, in[1], in[2]), companyOf(u))
       IN (/\ Submit(u, in[1], in[2])
           /\ Len(found) > 0
           /\ found[1].type \in {"percentage", "hybrid"})
            => /\ resp'.code = 201
               /\ Len(expenses') = Len(expenses) + 1
               /\ LET e == expenses'[Len(expenses')]
                      expected == DynamicSequence(found[1])
                  IN /\ e.status = "pending"
                     /\ Len(e.approvalSequence) = Len(expected)
                     /\ \A i \in DOMAIN expected :
                          /\ StoredAsProduced(built'[Len(expenses')][i], expected[i])
                          /\ e.approvalSequence[i].approver = expected[i].approver
                          /\ e.approvalSequence[i].sequence = expected[i].sequence
                          /\ e.approvalSequence[i].status = "pending"]_vars

\* the approvers of the pending steps with the lowest sequence number
LowestPendingApprovers(seq) ==
  {seq[i].approver : i \in {k \in PendingIndexes(seq) :
                               \A j \in PendingIndexes(seq) :
                                  seq[k].sequence <= seq[j].sequence}}

\* C23: after an approve decision that leaves the expense pending, the current
\* approver is the approver of the pending step with the lowest sequence
\* number; and in every state a pending expense with a current approver has a
\* pending step owned by that approver.
C23_CurrentApproverOwnsLowestPending ==
  /\ (last.op \in {"action", "bulk"} /\ last.action \in {"approve", "approved"}) =>
        \A id \in last.ids :
           (Pending(id) /\ expenses[id] # last.before[id])
              => expenses[id].currentApprover
                    \in LowestPendingApprovers(expenses[id].approvalSequence)
  /\ \A id \in DOMAIN expenses :
        (Pending(id) /\ expenses[id].currentApprover # NULL)
           => OwnsPendingStep(expenses[id].currentApprover, id)

\* the first of three approvers has approved: the second is the current approver
C23_Witness ==
  /\ last.op = "action" /\ last.action = "approve"
  /\ \E id \in last.ids :
        /\ Pending(id)
        /\ Len(expenses[id].approvalSequence) = 3
        /\ StepStatuses(expenses[id].approvalSequence) = <<"approved", "pending", "pending">>
        /\ expenses[id].currentApprover = expenses[id].approvalSequence[2].approver

\* what identifies a step: every field but its status and comments
StepIdentity(step) ==
  [field \in (DOMAIN step) \ {"status", "comments"} |-> step[field]]

\* C24: no operation adds, removes or reorders the steps of a stored expense,
\* or changes the approver or the sequence number of a step; of a step only
\* the status and the comments change.
C24_StepsKeepIdentity ==
  [][\/ expenses' = expenses
     \/ \A id \in DOMAIN expenses :
          /\ id \in DOMAIN expenses'
          /\ Len(expenses'[id].approvalSequence) = Len(expenses[id].approvalSequence)
          /\ \A i \in DOMAIN expenses[id].approvalSequence :
                StepIdentity(expenses'[id].approvalSequence[i])
                   = StepIdentity(expenses[id].approvalSequence[i])]_vars

\* a bulk action has decided a step of an expense that has several steps
C24_Witness ==
  /\ last.op = "bulk"
  /\ \E id \in last.ids :
        /\ Len(expenses[id].approvalSequence) >= 2
        /\ expenses[id].approvalSequence # last.before[id].approvalSequence
        /\ Approvers(expenses[id].approvalSequence)
              = Approvers(last.before[id].approvalSequence)

\* the stored expense id after a bulk request of user u that selects it alone
BulkAlone(u, id, action, comments) ==
  IF /\ expenses[id].company = companyOf(u)
     /\ expenses[id].status = "pending"
     /\ (role(u) = "manager" => expenses[id].currentApprover = u)
  THEN LET r == DecideBulk(expenses[id], u, action, comments)
       IN IF r.result = "success" /\ Validates(r.doc) THEN r.doc ELSE expenses[id]
  ELSE expenses[id]

\* C25: a single decision or an override changes at most one expense; a bulk
\* action leaves every selected expense as a bulk request on that expense alone
\* would, and every other expense unchanged, so that a skipped expense is not
\* changed and does not stop or alter the processing of the others.
C25_DecisionsAreIndependent ==
  [][/\ last'.op \in {"action", "override"} =>
          Cardinality({id \in DOMAIN expenses : expenses'[id] # expenses[id]}) <= 1
     /\ last'.op = "bulk" =>
          \A ids \in SUBSET ExpenseIds, c \in Comments :
             BulkAction(last'.user, ids, last'.action, c) =>
                \A id \in DOMAIN expenses :
                   expenses'[id] = IF id \in ids
                                   THEN BulkAlone(last'.user, id, last'.action, c)
                                   ELSE expenses[id]]_vars

\* one bulk request has skipped one expense and decided another
C25_Witness ==
  /\ last.op = "bulk"
  /\ \E skipped \in last.ids, decided \in last.ids :
        /\ resp.results[skipped] = "skipped"
        /\ expenses[skipped] = last.before[skipped]
        /\ resp.results[decided] = "success"
        /\ expenses[decided] # last.before[decided]

\* user u can decide expense id by a single decision or a bulk action
CanDecide(u, id) ==
  /\ isManager(u)
  /\ expenses[id].company = companyOf(u)
  /\ OwnsPendingStep(u, id)

\* C26: an expense whose approval sequence is empty is treated as rejected: it
\* is never stored pending without current approver and without any user able
\* to decide it.
C26_EmptySequenceIsRejected ==
  \A id \in DOMAIN expenses :
     expenses[id].approvalSequence = <<>>
        => ~(/\ Pending(id)
             /\ expenses[id].currentApprover = NULL
             /\ \A u \in Users : ~CanDecide(u, id))

\* ------------------------------------------- decisions with failing lookups
NextFault ==
  \/ \E u \in Submitters, in \in SubmitInputs : Submit(u, in[1], in[2])
  \/ \E u \in Users, id \in ExpenseIds, action \in {"approve", "reject"}, c \in Comments,
        fault \in DecisionFaults :
        ActionUnder(u, id, action, c, fault)

SpecFault == Init /\ [][NextFault]_vars

\* the rules of other types than the given ones
WithoutTypes(ruleList, types) ==
  LET Keep(r) == r.type \notin types
  IN SelectSeq(ruleList, Keep)

\* the rules, none of them listing a specific approver
WithoutSpecificApprovers(ruleList) ==
  [i \in DOMAIN ruleList |-> [ruleList[i] EXCEPT !.specificApprovers = <<>>]]

\* the rules, none of them carrying a percentage
WithoutPercentages(ruleList) ==
  LET kept == WithoutTypes(ruleList, {"percentage"})
  IN [i \in DOMAIN kept |->
        IF kept[i].type = "hybrid"
        THEN [kept[i] EXCEPT !.type = "specific_approver"]
        ELSE kept[i]]

\* an approve request of the owner of a pending step, with a failing lookup
FaultedApprove(u, id, c, fault) ==
  /\ ActionUnder(u, id, "approve", c, fault)
  /\ isManager(u)
  /\ FoundForAction(u, id)
  /\ OwnsPendingStep(u, id)

\* C27 as stated: when the rule lookup of checkAutoApproval (of
\* checkPercentageApproval) fails, the approve decision is applied, answered
\* 200, and leaves the expense as it would in a company that has no
\* specific_approver and no hybrid rule (no percentage and no hybrid rule).
C27_AsIfNoSuchRule ==
  [][\A u \in Users, id \in ExpenseIds, c \in Comments,
        fault \in DecisionFaults \ {"none"} :
        FaultedApprove(u, id, c, fault) =>
           /\ resp'.code = 200
           /\ expenses'[id] =
                 DecideSingle(WithoutTypes(rules,
                                 IF fault = "autoLookup"
                                 THEN {"specific_approver", "hybrid"}
                                 ELSE {"percentage", "hybrid"}),
                              expenses[id], u, "approve", c).doc]_vars

\* C27 amended: when the rule lookup of checkAutoApproval (of
\* checkPercentageApproval) fails, the approve decision is applied, answered
\* 200, and leaves the expense as it would if no rule listed a specific
\* approver (if no rule carried a percentage); the other check still reads the
\* company's rules, hybrid rules included.
C27_AsIfCheckFoundNoRule ==
  [][\A u \in Users, id \in ExpenseIds, c \in Comments,
        fault \in DecisionFaults \ {"none"} :
        FaultedApprove(u, id, c, fault) =>
           /\ resp'.code = 200
           /\ expenses'[id] =
                 DecideSingle(IF fault = "autoLookup"
                              THEN WithoutSpecificApprovers(rules)
                              ELSE WithoutPercentages(rules),
                              expenses[id], u, "approve", c).doc]_vars

\* an approve has left the expense pending although a percentage rule of the
\* company is met: the lookup of checkPercentageApproval had failed
C27_Witness ==
  /\ last.op = "action" /\ last.action = "approve"
  /\ \E id \in last.ids :
        /\ Pending(id)
        /\ checkPercentageApproval(rules, expenses[id], expenses[id].approvalSequence)

\* a request of user u on expense id: a single decision, an override, or a
\* bulk action that selects id
RequestOn(u, id) ==
  \/ \E action \in {"approve", "reject"}, c \in Comments : Action(u, id, action, c)
  \/ \E action \in {"approved", "rejected"}, c \in OverrideComments :
        Override(u, id, action, c)
  \/ \E ids \in SUBSET ExpenseIds, action \in {"approved", "rejected"}, c \in Comments :
        id \in ids /\ BulkAction(u, ids, action, c)

C30_PendingHasNoRejectedStep ==
  /\ \A id \in DOMAIN expenses :
        Pending(id) =>
           \A i \in DOMAIN expenses[id].approvalSequence :
              expenses[id].approvalSequence[i].status \in {"pending", "approved"}
  /\ last.op = "action" =>
        \A id \in last.ids :
           /\ BranchTaken(id) # "insufficient"
           /\ BranchTaken(id) = "fallback" =>
                 \A i \in DOMAIN expenses[id].approvalSequence :
                    expenses[id].approvalSequence[i].status = "approved"

\* the last approver of a sequence of several steps has approved and the
\* default threshold has finalized the expense
C30_Witness ==
  /\ last.op = "action"
  /\ \E id \in last.ids :
        /\ BranchTaken(id) = "fallback"
        /\ Len(expenses[id].approvalSequence) >= 2
        /\ expenses[id].status = "approved"

\* --------------------------------------------------- decisions until the end
\* submissions and single decisions
NextProgress ==
  \/ \E u \in Submitters, in \in SubmitInputs : Submit(u, in[1], in[2])
  \/ \E u \in Users, id \in ExpenseIds, action \in {"approve", "reject"}, c \in Comments :
        Action(u, id, action, c)

\* the current approver of expense id sends a decision
CurrentApproverActs(id) ==
  /\ id \in DOMAIN expenses
  /\ expenses[id].currentApprover # NULL
  /\ \E action \in {"approve", "reject"}, c \in Comments :
        Action(expenses[id].currentApprover, id, action, c)

\* every current approver eventually acts
SpecProgress ==
  Init /\ [][NextProgress]_vars /\ \A id \in ExpenseIds : WF_vars(CurrentApproverActs(id))

PendingCount(seq) == Cardinality(PendingIndexes(seq))

\* C29: every successful single decision strictly decreases the number of
\* pending steps of the expense, and, the current approvers acting, an expense
\* stored pending with a non-empty sequence is eventually approved or rejected.
C29_DecisionsReachTheEnd ==
  /\ [][(last'.op = "action" /\ expenses' # expenses) =>
          \A id \in last'.ids :
             PendingCount(expenses'[id].approvalSequence)
                < PendingCount(expenses[id].approvalSequence)]_vars
  /\ \A id \in ExpenseIds :
        (Pending(id) /\ expenses[id].approvalSequence # <<>>)
           ~> (id \in DOMAIN expenses /\ expenses[id].status \in {"approved", "rejected"})

\* C31: a single or bulk decision takes a step out of pending only when the
\* acting user is the current approver of the expense at that moment.
C31_OnlyCurrentApproverDecides ==
  last.op \in {"action", "bulk"} =>
     \A id \in last.ids :
        (\E i \in DOMAIN expenses[id].approvalSequence :
            /\ last.before[id].approvalSequence[i].status = "pending"
            /\ expenses[id].approvalSequence[i].status # "pending")
           => last.before[id].currentApprover = last.user

\* the steps of expense id that the transition changes
ChangedSteps(id) ==
  {i \in DOMAIN expenses[id].approvalSequence :
     expenses'[id].approvalSequence[i] # expenses[id].approvalSequence[i]}

\* C32: a single or bulk decision that finalizes an expense changes the
\* decided step only, the other pending steps stay pending; and the pending
\* steps of an approved or rejected expense stay pending through every
\* operation but an override.
C32_FinalizedKeepsPendingSteps ==
  [][\/ expenses' = expenses
     \/ \A id \in DOMAIN expenses :
          /\ (last'.op \in {"action", "bulk"} /\ Pending(id)
                /\ expenses'[id].status \in {"approved", "rejected"})
                => Cardinality(ChangedSteps(id)) = 1
          /\ (Decided(id) /\ last'.op # "override")
                => \A i \in DOMAIN expenses[id].approvalSequence :
                      expenses[id].approvalSequence[i].status = "pending"
                         => expenses'[id].approvalSequence[i].status = "pending"]_vars

\* an approve has finalized an expense approved and a step of it is pending
C32_Witness ==
  /\ last.op \in {"action", "bulk"} /\ last.action \in {"approve", "approved"}
  /\ \E id \in last.ids :
        /\ expenses[id].status = "approved"
        /\ last.before[id].status = "pending"
        /\ \E i \in DOMAIN expenses[id].approvalSequence :
              expenses[id].approvalSequence[i].status = "pending"

\* ------------------------------------- a cancel interleaved with decisions
\* a finished cancel request and the document it had loaded
CancelDone(u, id, code, loaded) ==
  [pc |-> "done", user |-> u, id |-> id, action |-> "cancel", code |-> code,
   loaded |-> loaded]

\* PUT /:id/cancel up to the await before expense.save()
CancelLoad(r, u, id) ==
  /\ reqs[r].pc = "idle"
  /\ reqs' = [reqs EXCEPT ![r] =
       IF /\ id \in DOMAIN expenses
          /\ expenses[id].employee = u
          /\ expenses[id].status = "pending"
       THEN [pc |-> "cancelling", user |-> u, id |-> id, action |-> "cancel",
             loaded |-> expenses[id],
             mem |-> [expenses[id] EXCEPT !.status = "cancelled"]]
       ELSE CancelDone(u, id, 404, <<>>)]
  /\ UNCHANGED <<rules, expenses, built, resp, last, users, mails, flowExpenses>>

\* PUT /:id/cancel from expense.save() to the response
CancelSave(r) ==
  /\ reqs[r].pc = "cancelling"
  /\ LET q == reqs[r]
     IN /\ expenses' = [expenses EXCEPT
                          ![q.id] = SaveModified(expenses[q.id], q.loaded, q.mem)]
        /\ reqs' = [reqs EXCEPT ![r] = CancelDone(q.user, q.id, 200, q.loaded)]
  /\ UNCHANGED <<rules, built, resp, last, users, mails, flowExpenses>>

NextCancelRace ==
  \/ \E u \in Submitters, in \in SubmitInputs : Submit(u, in[1], in[2])
  \/ \E r \in Requests, u \in Users, id \in ExpenseIds, action \in {"approve", "reject"},
        c \in Comments :
        ActionLoad(r, u, id, action, c)
  \/ \E r \in Requests : ActionSave(r)
  \/ \E r \in Requests, u \in Submitters, id \in ExpenseIds : CancelLoad(r, u, id)
  \/ \E r \in Requests : CancelSave(r)

SpecCancelRace == Init /\ [][NextCancelRace]_vars

\* C33: however a cancel and a decision on the same pending expense
\* interleave, a cancelled expense has no final approval, and an expense whose
\* cancel succeeded is cancelled (not approved or rejected) and has the steps
\* the cancel request found, none of them marked by the other request.
C33_CancelExcludesDecision ==
  \A id \in DOMAIN expenses :
     /\ expenses[id].status = "cancelled" => ~FinalApprovalSet(expenses[id])
     /\ \A r \in Requests :
           (/\ reqs[r].pc = "done" /\ reqs[r].action = "cancel"
            /\ reqs[r].code = 200 /\ reqs[r].id = id)
              => /\ expenses[id].status = "cancelled"
                 /\ expenses[id].approvalSequence = reqs[r].loaded.approvalSequence

\* the approval fields of an expense
ApprovalFields(e) ==
  [status |-> e.status, approvalSequence |-> e.approvalSequence,
   currentApprover |-> e.currentApprover, finalApproval |-> e.finalApproval]

\* C34: an update is accepted only for a pending expense of the user that
\* sends it (any other update is answered 404 and changes nothing); an
\* accepted update leaves status, approvalSequence, currentApprover and
\* finalApproval of the expense as they are and every other expense unchanged;
\* after it the stored sequence still has the approvers and sequence numbers
\* built at submission.
C34_UpdateKeepsApprovalFields ==
  /\ \A u \in Users, id \in ExpenseIds, in \in UpdateInputs :
        IF id \in DOMAIN expenses /\ expenses[id].employee = u /\ Pending(id)
        THEN ~ENABLED (/\ Update(u, id, in[1], in[2])
                       /\ ~(/\ resp'.code = 200
                             /\ ApprovalFields(expenses'[id]) = ApprovalFields(expenses[id])
                             /\ \A o \in DOMAIN expenses \ {id} :
                                   expenses'[o] = expenses[o]))
        ELSE ~ENABLED (/\ Update(u, id, in[1], in[2])
                       /\ ~(resp'.code = 404 /\ expenses' = expenses))
  /\ last.op = "update" =>
        \A id \in last.ids :
           /\ Len(expenses[id].approvalSequence) = Len(built[id])
           /\ \A i \in DOMAIN built[id] :
                 /\ expenses[id].approvalSequence[i].approver = built[id][i].approver
                 /\ expenses[id].approvalSequence[i].sequence = built[id][i].sequence

\* an updated expense keeps a sequence that its new amount and category
\* would not produce
C34_Witness ==
  /\ last.op = "update"
  /\ \E id \in last.ids :
        /\ expenses[id] # last.before[id]
        /\ Approvers(expenses[id].approvalSequence)
              # Approvers(determineApprovalSequence(rules, expenses[id],
                                                    expenses[id].company))

\* ------------------------------------------------------------------ C35
\* the budget updates of a request body: <<monthlyBudget, budgetAlertThreshold>>
BudgetInputs == {<<600, 80>>, <<1000, 50>>, <<0, 80>>}

\* the users whose budget is updated
BudgetOwners == {"emp", "A"}

\* PUT /:id/budget
UpdateBudget(u, id, monthlyBudget, budgetAlertThreshold) ==
  /\ IF ~isAdmin(u) /\ id # u
     THEN /\ resp' = Failure(403, "You can only update your own budget")
          /\ last' = NoRequest
          /\ users' = users
     ELSE IF users[id].company # companyOf(u)
     THEN /\ resp' = Failure(404, "User not found")
          /\ last' = NoRequest
          /\ users' = users
     ELSE /\ users' = [users EXCEPT ![id].monthlyBudget = monthlyBudget,
                                    ![id].budgetAlertThreshold = budgetAlertThreshold,
                                    ![id].budgetAlertSent = FALSE]
          /\ resp' = Success(200, "Budget updated successfully")
          /\ last' = Request("budget", u, {}, NULL, <<>>)
  /\ UNCHANGED <<rules, expenses, built, reqs, mails, flowExpenses>>

InitBudget ==
  /\ rules = <<>>
  /\ expenses = <<>>
  /\ built = <<>>
  /\ resp = Response(0, "", <<>>)
  /\ last = NoRequest
  /\ reqs = [r \in Requests |-> IdleRequest]
  /\ mails = <<>>
  /\ flowExpenses = <<>>
  /\ users = Directory

\* submissions under a mail service that may reject, and budget updates
NextBudget ==
  \/ \E u \in Submitters, in \in SubmitInputs, fault \in MailFaults :
        SubmitUnder(u, in[1], in[2], fault)
  \/ \E u \in Users, id \in BudgetOwners, in \in BudgetInputs :
        UpdateBudget(u, id, in[1], in[2])

SpecBudget == InitBudget /\ [][NextBudget]_vars

\* C35: an alert is delivered only to a user whose budgetAlertSent was false, so
\* that after an alert nothing more is sent until a budget update resets the
\* flag, and budgetAlertSent turns true only in a step that delivers an alert:
\* when sending fails the flag stays false (the submission is answered with 201
\* in either case).
C35_AlertLatch ==
  [][/\ Len(mails') > Len(mails) => ~users[mails'[Len(mails')].to].budgetAlertSent
     /\ \A u \in Users :
          ~users[u].budgetAlertSent /\ users'[u].budgetAlertSent
            => /\ Len(mails') > Len(mails)
               /\ resp'.code = 201]_vars

\* ------------------------------------------- approvalFlow model (C36, C37)
MaxFlowExpenses == 2

FlowExpenseIds == 1..MaxFlowExpenses

FlowUsers == {"M1", "M2", "E1", "E2", "Ad"}

\* the User collection of the approvalFlow model: two managers, an employee
\* reporting to M1, an employee without manager, an admin
FlowDirectory ==
  [u \in FlowUsers |->
     [role |-> CASE u \in {"M1", "M2"} -> "Manager"
                 [] u = "Ad" -> "Admin"
                 [] OTHER -> "Employee",
      company |-> "c1",
      manager |-> IF u = "E1" THEN "M1" ELSE NULL]]

authorizeRoles(u, roles) == FlowDirectory[u].role \in roles

AccessDenied == Failure(403, "Access denied: insufficient permissions")

\* a new document of the Expense model with the schema defaults
FlowExpense(u, approvalFlow) ==
  [employee |-> u, company |-> FlowDirectory[u].company, status |-> "Pending",
   approvalFlow |-> approvalFlow]

\* POST /create-expense of the expense router: no approvalFlow is given
CreateExpense(u) ==
  /\ Len(flowExpenses) < MaxFlowExpenses
  /\ IF ~authorizeRoles(u, {"Employee"})
     THEN /\ resp' = AccessDenied
          /\ UNCHANGED flowExpenses
     ELSE /\ flowExpenses' = Append(flowExpenses, FlowExpense(u, <<>>))
          /\ resp' = Success(201, "")
  /\ UNCHANGED <<rules, expenses, built, last, reqs, users, mails>>

\* POST /create-expense of the employee router: one entry for req.user.manager
EmployeeCreateExpense(u) ==
  /\ Len(flowExpenses) < MaxFlowExpenses
  /\ IF ~authorizeRoles(u, {"Employee"})
     THEN /\ resp' = AccessDenied
          /\ UNCHANGED flowExpenses
     ELSE /\ flowExpenses' =
               Append(flowExpenses,
                      FlowExpense(u, <<[approver |-> FlowDirectory[u].manager,
                                        status |-> "Pending"]>>))
          /\ resp' = Success(201, "")
  /\ UNCHANGED <<rules, expenses, built, last, reqs, users, mails>>

\* approvalFlow.forEach: the entries of the caller get the status; toString()
\* of an entry without approver throws
MarkFlow(approvalFlow, u, status) ==
  [i \in DOMAIN approvalFlow |->
     IF IdToString(approvalFlow[i].approver) = IdToString(u)
     THEN [approvalFlow[i] EXCEPT !.status = status]
     ELSE approvalFlow[i]]

FlowThrows(approvalFlow) ==
  \E i \in DOMAIN approvalFlow : approvalFlow[i].approver = NULL

\* PUT /approve/:id
ManagerApprove(u, id) ==
  /\ IF ~authorizeRoles(u, {"Manager"})
     THEN /\ resp' = AccessDenied
          /\ UNCHANGED flowExpenses
     ELSE IF id \notin DOMAIN flowExpenses
     THEN /\ resp' = Failure(404, "Expense not found")
          /\ UNCHANGED flowExpenses
     ELSE IF FlowThrows(flowExpenses[id].approvalFlow)
     THEN /\ resp' = Failure(500, "Cannot read properties of null")
          /\ UNCHANGED flowExpenses
     ELSE LET expense == flowExpenses[id]
              approvalFlow == MarkFlow(expense.approvalFlow, u, "Approved")
          IN /\ flowExpenses' =
                  [flowExpenses EXCEPT ![id] =
                     [expense EXCEPT
                        !.approvalFlow = approvalFlow,
                        !.status = IF \A i \in DOMAIN approvalFlow :
                                        approvalFlow[i].status = "Approved"
                                   THEN "Approved" ELSE expense.status]]
             /\ resp' = Success(200, "")
  /\ UNCHANGED <<rules, expenses, built, last, reqs, users, mails>>

\* PUT /reject/:id
ManagerReject(u, id) ==
  /\ IF ~authorizeRoles(u, {"Manager"})
     THEN /\ resp' = AccessDenied
          /\ UNCHANGED flowExpenses
     ELSE IF id \notin DOMAIN flowExpenses
     THEN /\ resp' = Failure(404, "Expense not found")
          /\ UNCHANGED flowExpenses
     ELSE IF FlowThrows(flowExpenses[id].approvalFlow)
     THEN /\ resp' = Failure(500, "Cannot read properties of null")
          /\ UNCHANGED flowExpenses
     ELSE LET expense == flowExpenses[id]
          IN /\ flowExpenses' =
                  [flowExpenses EXCEPT ![id] =
                     [expense EXCEPT
                        !.approvalFlow = MarkFlow(expense.approvalFlow, u, "Rejected"),
                        !.status = "Rejected"]]
             /\ resp' = Success(200, "")
  /\ UNCHANGED <<rules, expenses, built, last, reqs, users, mails>>

InitFlow ==
  /\ rules = <<>>
  /\ expenses = <<>>
  /\ built = <<>>
  /\ resp = Response(0, "", <<>>)
  /\ last = NoRequest
  /\ reqs = [r \in Requests |-> IdleRequest]
  /\ mails = <<>>
  /\ flowExpenses = <<>>
  /\ users = Directory

NextFlow ==
  \/ \E u \in FlowUsers : CreateExpense(u)
  \/ \E u \in FlowUsers : EmployeeCreateExpense(u)
  \/ \E u \in FlowUsers, id \in FlowExpenseIds : ManagerApprove(u, id)
  \/ \E u \in FlowUsers, id \in FlowExpenseIds : ManagerReject(u, id)

SpecFlow == InitFlow /\ [][NextFlow]_vars

\* ------------------------------------------------------------------ C36
\* C36: an expense of the approvalFlow model has status Approved only if every
\* entry of its approvalFlow is Approved, and an expense whose status is
\* Rejected never becomes Approved afterwards.
C36_ApprovedByAllAndRejectedIsTerminal ==
  [][\A id \in DOMAIN flowExpenses :
       /\ flowExpenses'[id].status = "Approved"
            => \A i \in DOMAIN flowExpenses'[id].approvalFlow :
                  flowExpenses'[id].approvalFlow[i].status = "Approved"
       /\ flowExpenses[id].status = "Rejected"
            => flowExpenses'[id].status # "Approved"]_vars

\* ------------------------------------------------------------------ C37
\* the manager is the approver of an entry of the approvalFlow
ListedApprover(u, id) ==
  \E i \in DOMAIN flowExpenses[id].approvalFlow :
     flowExpenses[id].approvalFlow[i].approver = u

\* C37: no approve or reject call of a manager who is not listed in the
\* approvalFlow of an expense (an empty approvalFlow lists nobody) changes the
\* status of that expense.
C37_OnlyListedApproverChangesStatus ==
  \A u \in FlowUsers, id \in DOMAIN flowExpenses :
     ~ListedApprover(u, id)
       => ~ENABLED (/\ ManagerApprove(u, id) \/ ManagerReject(u, id)
                    /\ flowExpenses'[id].status # flowExpenses[id].status)
====
